---- MODULE Spec2Model ----
(***************************************************************************)
(* Model of cloud/ovirt/ovirt_clusters.py: the ovirt_clusters module.      *)
(*                                                                         *)
(* Python values are encoded as follows.                                   *)
(*   str, bool and enum values : strings ("True"/"False" for bools, the    *)
(*                               enum's image for an ovirtsdk4 enum),      *)
(*                               the Python None being the string None     *)
(*   int values                : integers, None being NoneI                *)
(*   list values               : sequences, None being NoneList            *)
(*   SDK struct values         : records, None being NoneObj               *)
(***************************************************************************)
EXTENDS Integers, Sequences, FiniteSets, TLC

None == "<None>"
NoneI == 0 - 1
NoneList == << "<None>" >>
NoneObj == [none |-> TRUE]

(* ------------------------------------------------------------------ *)
(* Bounds of the model                                                *)
(* ------------------------------------------------------------------ *)
\* number of consecutive runs of main against the same remote
MaxRuns == 2
\* largest custom migration bandwidth limit tried (0 and this value)
MaxLimit == 10

(* ------------------------------------------------------------------ *)
(* Python semantics used by the module                                *)
(* ------------------------------------------------------------------ *)
\* truth value of a str / bool / None
Truthy(v) == v \notin {None, "False", ""}
\* truth value of an int / None
TruthyI(i) == i # NoneI /\ i # 0
\* truth value of a list / None
TruthyL(l) == l # NoneList /\ l # << >>
\* a or b
PyOr(a, b) == IF Truthy(a) THEN a ELSE b
\* a and b
PyAnd(a, b) == IF Truthy(a) THEN b ELSE a
\* not a
PyNot(a) == IF Truthy(a) THEN "False" ELSE "True"
\* str(x) of an enum value or None
Str(v) == IF v = None THEN "None" ELSE v

\* ansible.module_utils.ovirt.equal, on str/bool, int and list values
equal(param1, param2) == IF param1 # None THEN param1 = param2 ELSE TRUE
equalI(param1, param2) == IF param1 # NoneI THEN param1 = param2 ELSE TRUE
equalL(param1, param2) == IF param1 # NoneList THEN param1 = param2 ELSE TRUE

\* sorted() on lists of rng source names (at most two elements are used)
Rank(s) == CASE s = "hwrng" -> 1 [] s = "random" -> 2 [] OTHER -> 3
RECURSIVE Insert(_, _)
Insert(x, s) ==
    IF s = << >> THEN << x >>
    ELSE IF Rank(x) <= Rank(Head(s)) THEN << x >> \o s
    ELSE << Head(s) >> \o Insert(x, Tail(s))
RECURSIVE sorted(_)
sorted(s) == IF s = << >> THEN << >> ELSE Insert(Head(s), sorted(Tail(s)))

\* full_version.split('.') and int() on the version strings of the model
Split(s) ==
    CASE s = "4.0" -> << 4, 0 >>
      [] s = "4.1" -> << 4, 1 >>
      [] s = "4"   -> << 4 >>
      [] OTHER     -> << >>

(* ------------------------------------------------------------------ *)
(* Module parameters (argument_spec)                                  *)
(* ------------------------------------------------------------------ *)
\* state=dict(choices=['present', 'absent'], default='present')
StateDefault(raw) == IF raw = None THEN "present" ELSE raw

\* every parameter at its default (None); name is required
NoParams ==
    [ name |-> "c1", state |-> "present",
      ballooning |-> None, gluster |-> None, virt |-> None,
      threads_as_cores |-> None, ksm_numa |-> None, ksm |-> None,
      ha_reservation |-> None, trusted_service |-> None,
      vm_reason |-> None, host_reason |-> None, memory_policy |-> None,
      rng_sources |-> NoneList, spice_proxy |-> None,
      fence_enabled |-> None, fence_skip_if_sd_active |-> None,
      fence_skip_if_connectivity_broken |-> None,
      fence_connectivity_threshold |-> NoneI,
      resilience_policy |-> None, migration_bandwidth |-> None,
      migration_bandwidth_limit |-> NoneI,
      migration_auto_converge |-> None, migration_compressed |-> None,
      migration_policy |-> None, serial_policy |-> None,
      serial_policy_value |-> None, scheduling_policy |-> None,
      datacenter |-> None, description |-> None, comment |-> None,
      network |-> None, cpu_arch |-> None, cpu_type |-> None,
      switch_type |-> None, compatibility_version |-> None ]

(* ------------------------------------------------------------------ *)
(* ClustersModule helpers                                             *)
(* ------------------------------------------------------------------ *)
\* __get_major / __get_minor on a version string: the int, or a raise
get_major(full_version) ==
    IF full_version = None THEN [ok |-> TRUE, v |-> NoneI]
    ELSE IF Len(Split(full_version)) >= 1
         THEN [ok |-> TRUE, v |-> Split(full_version)[1]]
         ELSE [ok |-> FALSE, v |-> NoneI]

get_minor(full_version) ==
    IF full_version = None THEN [ok |-> TRUE, v |-> NoneI]
    ELSE IF Len(Split(full_version)) >= 2
         THEN [ok |-> TRUE, v |-> Split(full_version)[2]]
         ELSE [ok |-> FALSE, v |-> NoneI]

get_memory_policy(p) ==
    CASE p.memory_policy = "desktop"  -> 200
      [] p.memory_policy = "server"   -> 150
      [] p.memory_policy = "disabled" -> 100
      [] OTHER -> NoneI

get_policy_id(p) ==
    CASE p.migration_policy = "legacy" -> "00000000-0000-0000-0000-000000000000"
      [] p.migration_policy = "minimal_downtime" -> "80554327-0569-496b-bdeb-fcbbf52b827b"
      [] p.migration_policy = "suspend_workload" -> "80554327-0569-496b-bdeb-fcbbf52b827c"
      [] OTHER -> None

\* the scheduling policies the remote knows
SchedPolicies == { [id |-> "id-p1", name |-> "p1"] }

\* search_by_name on the scheduling policies service: the policy or None
search_by_name(policies, name) ==
    IF \E s \in policies : s.name = name
    THEN CHOOSE s \in policies : s.name = name
    ELSE NoneObj

\* the lookup is made under this condition
SchedLookupWanted(p) == Truthy(p.serial_policy)

\* _get_sched_policy with the lookup made whatever serial_policy is
get_sched_policy_Unguarded(p, apiFails) ==
    IF apiFails
    THEN [ok |-> FALSE, policy |-> NoneObj, err |-> "api error", lookups |-> 1]
    ELSE LET sched_policy == search_by_name(SchedPolicies, p.scheduling_policy)
         IN IF sched_policy = NoneObj
            THEN [ok |-> FALSE, policy |-> NoneObj, lookups |-> 1,
                  err |-> "Scheduling policy '" \o Str(p.scheduling_policy)
                            \o "' was not found"]
            ELSE [ok |-> TRUE, policy |-> sched_policy, err |-> "", lookups |-> 1]

\* _get_sched_policy: [ok, policy, err, lookups]; apiFails: the SDK call raises
get_sched_policy(p, apiFails) ==
    IF SchedLookupWanted(p)
    THEN IF apiFails
         THEN [ok |-> FALSE, policy |-> NoneObj, err |-> "api error", lookups |-> 1]
         ELSE LET sched_policy == search_by_name(SchedPolicies, p.scheduling_policy)
              IN IF sched_policy = NoneObj
                 THEN [ok |-> FALSE, policy |-> NoneObj, lookups |-> 1,
                       err |-> "Scheduling policy '" \o Str(p.scheduling_policy)
                                 \o "' was not found"]
                 ELSE [ok |-> TRUE, policy |-> sched_policy, err |-> "", lookups |-> 1]
    ELSE [ok |-> TRUE, policy |-> NoneObj, err |-> "", lookups |-> 0]

(* ------------------------------------------------------------------ *)
(* ClustersModule.build_entity                                        *)
(* ------------------------------------------------------------------ *)
\* scheduling_policy=otypes.SchedulingPolicy(id=...) if sched_policy else None
build_scheduling_policy(sched_policy) ==
    IF sched_policy # NoneObj THEN [id |-> sched_policy.id] ELSE NoneObj

build_serial_number(p) ==
    IF p.serial_policy # None \/ p.serial_policy_value # None
    THEN [policy |-> p.serial_policy, value |-> p.serial_policy_value]
    ELSE NoneObj

\* otypes.SerialNumberPolicy(None) raises ValueError
serial_number_raises(p) ==
    build_serial_number(p) # NoneObj /\ p.serial_policy = None

build_bandwidth(p) ==
    IF Truthy(p.migration_bandwidth) \/ TruthyI(p.migration_bandwidth_limit)
    THEN [assignment_method |->
              IF Truthy(p.migration_bandwidth) THEN p.migration_bandwidth ELSE None,
          custom_value |-> p.migration_bandwidth_limit]
    ELSE NoneObj

build_migration(p) ==
    IF \/ p.migration_bandwidth # None
       \/ p.migration_bandwidth_limit # NoneI
       \/ p.migration_auto_converge # None
       \/ p.migration_compressed # None
       \/ p.migration_policy # None
    THEN [auto_converge |->
              IF Truthy(p.migration_auto_converge)
              THEN p.migration_auto_converge ELSE None,
          bandwidth |-> build_bandwidth(p),
          compressed |->
              IF Truthy(p.migration_compressed)
              THEN p.migration_compressed ELSE None,
          policy |->
              IF Truthy(p.migration_policy)
              THEN [id |-> get_policy_id(p)] ELSE NoneObj]
    ELSE NoneObj

build_error_handling(p) ==
    IF Truthy(p.resilience_policy)
    THEN [on_error |-> p.resilience_policy] ELSE NoneObj

\* enabled=(fence_enabled or fence_skip_if_connectivity_broken or fence_skip_if_sd_active)
fencing_enabled(p) ==
    PyOr(PyOr(p.fence_enabled, p.fence_skip_if_connectivity_broken),
         p.fence_skip_if_sd_active)

build_skip_if_connectivity_broken(p) ==
    IF \/ p.fence_skip_if_connectivity_broken # None
       \/ p.fence_connectivity_threshold # NoneI
    THEN [enabled |-> p.fence_skip_if_connectivity_broken,
          threshold |-> p.fence_connectivity_threshold]
    ELSE NoneObj

build_skip_if_sd_active(p) ==
    IF Truthy(p.fence_skip_if_sd_active)
    THEN [enabled |-> p.fence_skip_if_sd_active] ELSE NoneObj

build_fencing_policy(p) ==
    IF \/ p.fence_enabled # None
       \/ p.fence_skip_if_sd_active # None
       \/ p.fence_skip_if_connectivity_broken # None
       \/ p.fence_connectivity_threshold # NoneI
    THEN [enabled |-> fencing_enabled(p),
          skip_if_connectivity_broken |-> build_skip_if_connectivity_broken(p),
          skip_if_sd_active |-> build_skip_if_sd_active(p)]
    ELSE NoneObj

build_display(p) ==
    IF Truthy(p.spice_proxy) THEN [proxy |-> p.spice_proxy] ELSE NoneObj

build_required_rng_sources(p) ==
    IF TruthyL(p.rng_sources) THEN p.rng_sources ELSE NoneList

build_memory_policy(p) ==
    IF Truthy(p.memory_policy)
    THEN [over_commit |-> [percent |-> get_memory_policy(p)]] ELSE NoneObj

build_ksm(p) ==
    IF p.ksm_numa # None \/ p.ksm # None
    THEN [enabled |-> PyOr(p.ksm, p.ksm_numa),
          merge_across_nodes |-> PyNot(p.ksm_numa)]
    ELSE NoneObj

build_data_center(p) ==
    IF Truthy(p.datacenter) THEN [name |-> p.datacenter] ELSE NoneObj

build_management_network(p) ==
    IF Truthy(p.network) THEN [name |-> p.network] ELSE NoneObj

build_cpu(p) ==
    IF Truthy(p.cpu_arch) \/ Truthy(p.cpu_type)
    THEN [architecture |-> p.cpu_arch, type |-> p.cpu_type] ELSE NoneObj

build_version(p) ==
    IF Truthy(p.compatibility_version)
    THEN [major |-> get_major(p.compatibility_version).v,
          minor |-> get_minor(p.compatibility_version).v]
    ELSE NoneObj

\* __get_major / __get_minor raise while the version is built
version_raises(p) ==
    /\ Truthy(p.compatibility_version)
    /\ \/ ~get_major(p.compatibility_version).ok
       \/ ~get_minor(p.compatibility_version).ok

build_switch_type(p) ==
    IF Truthy(p.switch_type) THEN p.switch_type ELSE None

\* otypes.Cluster(...) of the parameters and the scheduling policy found
Cluster(p, sched_policy) ==
    [ name |-> p.name,
      comment |-> p.comment,
      description |-> p.description,
      ballooning_enabled |-> p.ballooning,
      gluster_service |-> p.gluster,
      virt_service |-> p.virt,
      threads_as_cores |-> p.threads_as_cores,
      ha_reservation |-> p.ha_reservation,
      trusted_service |-> p.trusted_service,
      optional_reason |-> p.vm_reason,
      maintenance_reason_required |-> p.host_reason,
      scheduling_policy |-> build_scheduling_policy(sched_policy),
      serial_number |-> build_serial_number(p),
      migration |-> build_migration(p),
      error_handling |-> build_error_handling(p),
      fencing_policy |-> build_fencing_policy(p),
      display |-> build_display(p),
      required_rng_sources |-> build_required_rng_sources(p),
      memory_policy |-> build_memory_policy(p),
      ksm |-> build_ksm(p),
      data_center |-> build_data_center(p),
      management_network |-> build_management_network(p),
      cpu |-> build_cpu(p),
      version |-> build_version(p),
      switch_type |-> build_switch_type(p) ]

\* build_entity: [ok, entity, err, lookups]; the first raise wins, in the
\* order in which Python evaluates the call
build_entity(p, apiFails) ==
    LET sp == get_sched_policy(p, apiFails)
    IN IF ~sp.ok
       THEN [ok |-> FALSE, entity |-> NoneObj, err |-> sp.err, lookups |-> sp.lookups]
       ELSE IF serial_number_raises(p)
       THEN [ok |-> FALSE, entity |-> NoneObj, lookups |-> sp.lookups,
             err |-> "None is not a valid SerialNumberPolicy"]
       ELSE IF version_raises(p)
       THEN [ok |-> FALSE, entity |-> NoneObj, lookups |-> sp.lookups,
             err |-> "list index out of range"]
       ELSE [ok |-> TRUE, entity |-> Cluster(p, sp.policy), err |-> "",
             lookups |-> sp.lookups]

(* ------------------------------------------------------------------ *)
(* ClustersModule.update_check                                        *)
(* ------------------------------------------------------------------ *)
\* the comparisons that come before the scheduling policy (short-circuit and)
check_before_sched(p, entity) ==
    /\ equal(p.comment, entity.comment)
    /\ equal(p.description, entity.description)
    /\ equal(p.switch_type, Str(entity.switch_type))
    /\ equal(p.cpu_arch, Str(entity.cpu.architecture))
    /\ equal(p.cpu_type, entity.cpu.type)
    /\ equal(p.ballooning, entity.ballooning_enabled)
    /\ equal(p.gluster, entity.gluster_service)
    /\ equal(p.virt, entity.virt_service)
    /\ equal(p.threads_as_cores, entity.threads_as_cores)
    /\ equal(p.ksm_numa, PyAnd(PyNot(entity.ksm.merge_across_nodes), entity.ksm.enabled))
    /\ equal(p.ksm, PyAnd(entity.ksm.merge_across_nodes, entity.ksm.enabled))
    /\ equal(p.ha_reservation, entity.ha_reservation)
    /\ equal(p.trusted_service, entity.trusted_service)
    /\ equal(p.host_reason, entity.maintenance_reason_required)
    /\ equal(p.vm_reason, entity.optional_reason)
    /\ equal(p.spice_proxy,
             IF entity.display = NoneObj THEN None ELSE entity.display.proxy)
    /\ equal(p.fence_enabled, entity.fencing_policy.enabled)
    /\ equal(p.fence_skip_if_sd_active, entity.fencing_policy.skip_if_sd_active.enabled)
    /\ equal(p.fence_skip_if_connectivity_broken,
             entity.fencing_policy.skip_if_connectivity_broken.enabled)
    /\ equalI(p.fence_connectivity_threshold,
              entity.fencing_policy.skip_if_connectivity_broken.threshold)
    /\ equal(p.resilience_policy, Str(entity.error_handling.on_error))
    /\ equal(p.migration_bandwidth, Str(entity.migration.bandwidth.assignment_method))
    /\ equal(p.migration_auto_converge, Str(entity.migration.auto_converge))
    /\ equal(p.migration_compressed, Str(entity.migration.compressed))
    /\ equal(p.serial_policy, Str(entity.serial_number.policy))
    /\ equal(p.serial_policy_value, entity.serial_number.value)

\* the limit that is compared with the remote custom_value
checked_bandwidth_limit(p) ==
    IF p.migration_bandwidth = "custom" THEN p.migration_bandwidth_limit ELSE NoneI

\* the comparisons that come after the compatibility version
check_after_version(p, entity) ==
    /\ equalI(checked_bandwidth_limit(p), entity.migration.bandwidth.custom_value)
    /\ equalL(IF TruthyL(p.rng_sources) THEN sorted(p.rng_sources) ELSE NoneList,
              sorted(entity.required_rng_sources))

\* update_check: [ok, same, err, lookups]; ok = FALSE when it raises
update_check(p, entity, apiFails) ==
    LET sp == get_sched_policy(p, apiFails)
        No == [ok |-> TRUE, same |-> FALSE, err |-> "", lookups |-> 0]
    IN IF ~check_before_sched(p, entity) THEN No
       ELSE IF ~sp.ok
       THEN [ok |-> FALSE, same |-> FALSE, err |-> sp.err, lookups |-> sp.lookups]
       ELSE IF sp.policy = NoneObj
       THEN [ok |-> FALSE, same |-> FALSE, lookups |-> sp.lookups,
             err |-> "'NoneType' object has no attribute 'name'"]
       ELSE IF ~equal(p.scheduling_policy, sp.policy.name)
       THEN [No EXCEPT !.lookups = sp.lookups]
       ELSE IF ~equal(get_policy_id(p), entity.migration.policy.id)
       THEN [No EXCEPT !.lookups = sp.lookups]
       ELSE IF ~equalI(get_memory_policy(p), entity.memory_policy.over_commit.percent)
       THEN [No EXCEPT !.lookups = sp.lookups]
       ELSE IF ~get_minor(p.compatibility_version).ok
       THEN [ok |-> FALSE, same |-> FALSE, lookups |-> sp.lookups,
             err |-> "list index out of range"]
       ELSE IF ~equalI(get_minor(p.compatibility_version).v, entity.version.minor)
       THEN [No EXCEPT !.lookups = sp.lookups]
       ELSE IF ~get_major(p.compatibility_version).ok
       THEN [ok |-> FALSE, same |-> FALSE, lookups |-> sp.lookups,
             err |-> "list index out of range"]
       ELSE IF ~equalI(get_major(p.compatibility_version).v, entity.version.major)
       THEN [No EXCEPT !.lookups = sp.lookups]
       ELSE [ok |-> TRUE, same |-> check_after_version(p, entity), err |-> "",
             lookups |-> sp.lookups]

(* ------------------------------------------------------------------ *)
(* The remote: clusters service                                       *)
(* ------------------------------------------------------------------ *)
\* A cluster as the remote returns it: every struct that update_check
\* dereferences is there; display is there only when a proxy is set.
DefaultCluster ==
    [ id |-> "id-c1", name |-> "c1", comment |-> "", description |-> "",
      ballooning_enabled |-> "False", gluster_service |-> "False",
      virt_service |-> "True", threads_as_cores |-> "False",
      ha_reservation |-> "False", trusted_service |-> "False",
      optional_reason |-> "False", maintenance_reason_required |-> "False",
      scheduling_policy |-> [id |-> "id-p0"],
      serial_number |-> [policy |-> "host", value |-> None],
      migration |-> [auto_converge |-> "inherit",
                     bandwidth |-> [assignment_method |-> "auto",
                                    custom_value |-> NoneI],
                     compressed |-> "inherit",
                     policy |-> [id |-> "80554327-0569-496b-bdeb-fcbbf52b827b"]],
      error_handling |-> [on_error |-> "migrate"],
      fencing_policy |-> [enabled |-> "True",
                          skip_if_connectivity_broken |->
                              [enabled |-> "False", threshold |-> 50],
                          skip_if_sd_active |-> [enabled |-> "False"]],
      display |-> NoneObj,
      required_rng_sources |-> << "random" >>,
      memory_policy |-> [over_commit |-> [percent |-> 100]],
      ksm |-> [enabled |-> "False", merge_across_nodes |-> "True"],
      data_center |-> [name |-> "dc1"],
      management_network |-> [name |-> "ovirtmgmt"],
      cpu |-> [architecture |-> "x86_64", type |-> "Intel"],
      version |-> [major |-> 4, minor |-> 0],
      switch_type |-> "legacy" ]

\* the same cluster with other settings
AltCluster ==
    [ DefaultCluster EXCEPT
      !.comment = "note", !.ballooning_enabled = "True",
      !.serial_number = [policy |-> "custom", value |-> "sn1"],
      !.migration = [auto_converge |-> "true",
                     bandwidth |-> [assignment_method |-> "custom",
                                    custom_value |-> MaxLimit],
                     compressed |-> "false",
                     policy |-> [id |-> "00000000-0000-0000-0000-000000000000"]],
      !.fencing_policy = [enabled |-> "False",
                          skip_if_connectivity_broken |->
                              [enabled |-> "True", threshold |-> 50],
                          skip_if_sd_active |-> [enabled |-> "True"]],
      !.display = [proxy |-> "http://proxy:3128"],
      !.required_rng_sources = << "hwrng", "random" >>,
      !.memory_policy = [over_commit |-> [percent |-> 150]],
      !.ksm = [enabled |-> "True", merge_across_nodes |-> "False"],
      !.version = [major |-> 4, minor |-> 1],
      !.switch_type = "ovs" ]

\* the remote takes every value that is sent and keeps what is omitted
MS(cur, new) == IF new = None THEN cur ELSE new
MI(cur, new) == IF new = NoneI THEN cur ELSE new
ML(cur, new) == IF new = NoneList THEN cur ELSE new
MO(cur, new) == IF new = NoneObj THEN cur ELSE new

ApplyMigration(cur, new) ==
    IF new = NoneObj THEN cur
    ELSE [auto_converge |-> MS(cur.auto_converge, new.auto_converge),
          bandwidth |->
              IF new.bandwidth = NoneObj THEN cur.bandwidth
              ELSE [assignment_method |-> MS(cur.bandwidth.assignment_method,
                                             new.bandwidth.assignment_method),
                    custom_value |-> MI(cur.bandwidth.custom_value,
                                        new.bandwidth.custom_value)],
          compressed |-> MS(cur.compressed, new.compressed),
          policy |-> MO(cur.policy, new.policy)]

ApplyFencing(cur, new) ==
    IF new = NoneObj THEN cur
    ELSE [enabled |-> MS(cur.enabled, new.enabled),
          skip_if_connectivity_broken |->
              IF new.skip_if_connectivity_broken = NoneObj
              THEN cur.skip_if_connectivity_broken
              ELSE [enabled |-> MS(cur.skip_if_connectivity_broken.enabled,
                                   new.skip_if_connectivity_broken.enabled),
                    threshold |-> MI(cur.skip_if_connectivity_broken.threshold,
                                     new.skip_if_connectivity_broken.threshold)],
          skip_if_sd_active |-> MO(cur.skip_if_sd_active, new.skip_if_sd_active)]

\* the cluster after add(new) (cur = DefaultCluster) or update(new)
ApplyCluster(cur, new) ==
    [ id |-> cur.id,
      name |-> MS(cur.name, new.name),
      comment |-> MS(cur.comment, new.comment),
      description |-> MS(cur.description, new.description),
      ballooning_enabled |-> MS(cur.ballooning_enabled, new.ballooning_enabled),
      gluster_service |-> MS(cur.gluster_service, new.gluster_service),
      virt_service |-> MS(cur.virt_service, new.virt_service),
      threads_as_cores |-> MS(cur.threads_as_cores, new.threads_as_cores),
      ha_reservation |-> MS(cur.ha_reservation, new.ha_reservation),
      trusted_service |-> MS(cur.trusted_service, new.trusted_service),
      optional_reason |-> MS(cur.optional_reason, new.optional_reason),
      maintenance_reason_required |->
          MS(cur.maintenance_reason_required, new.maintenance_reason_required),
      scheduling_policy |-> MO(cur.scheduling_policy, new.scheduling_policy),
      serial_number |->
          IF new.serial_number = NoneObj THEN cur.serial_number
          ELSE [policy |-> MS(cur.serial_number.policy, new.serial_number.policy),
                value |-> MS(cur.serial_number.value, new.serial_number.value)],
      migration |-> ApplyMigration(cur.migration, new.migration),
      error_handling |-> MO(cur.error_handling, new.error_handling),
      fencing_policy |-> ApplyFencing(cur.fencing_policy, new.fencing_policy),
      display |-> MO(cur.display, new.display),
      required_rng_sources |-> ML(cur.required_rng_sources, new.required_rng_sources),
      memory_policy |-> MO(cur.memory_policy, new.memory_policy),
      ksm |->
          IF new.ksm = NoneObj THEN cur.ksm
          ELSE [enabled |-> MS(cur.ksm.enabled, new.ksm.enabled),
                merge_across_nodes |-> MS(cur.ksm.merge_across_nodes,
                                          new.ksm.merge_across_nodes)],
      data_center |-> MO(cur.data_center, new.data_center),
      management_network |-> MO(cur.management_network, new.management_network),
      cpu |->
          IF new.cpu = NoneObj THEN cur.cpu
          ELSE [architecture |-> MS(cur.cpu.architecture, new.cpu.architecture),
                type |-> MS(cur.cpu.type, new.cpu.type)],
      version |-> MO(cur.version, new.version),
      switch_type |-> MS(cur.switch_type, new.switch_type) ]

(* ------------------------------------------------------------------ *)
(* State of a run of main                                             *)
(* ------------------------------------------------------------------ *)
VARIABLES
    params,      \* module.params after argument_spec defaults
    stateRaw,    \* the state option as the caller gave it (None: omitted)
    remote,      \* the cluster of that name on the remote, or NoneObj
    pc,          \* position in main
    connection,  \* the local variable connection: unbound, open, closed
    entity,      \* create/remove: the cluster found by name, or NoneObj
    sent,        \* the entity given to add/update, or NoneObj
    ret,         \* the result dictionary of create/remove
    err,         \* str(e) of the exception being handled
    out,         \* what the module exited with
    uncaught,    \* the exception that leaves main, "" when none
    invoked,     \* the reconcile operations called by main, in order
    calls,       \* remote calls issued in this run, by kind
    run,         \* number of this run
    prev         \* summary of the previous run

vars == << params, stateRaw, remote, pc, connection, entity, sent, ret, err,
           out, uncaught, invoked, calls, run, prev >>

NoRet == [changed |-> FALSE, id |-> None, msg |-> None]
NoOut == [kind |-> "none", changed |-> FALSE, id |-> None, msg |-> None]
NoCalls == [search |-> 0, sched |-> 0, write |-> 0]
NoPrev == [kind |-> "none", changed |-> FALSE, wrote |-> "none"]

(* ------------------------------------------------------------------ *)
(* Parameter and remote values tried                                  *)
(* ------------------------------------------------------------------ *)
Bool3 == {None, "True", "False"}

\* a base on which update_check gets past the scheduling policy comparison
Bases == { NoParams,
           [NoParams EXCEPT !.serial_policy = "host", !.scheduling_policy = "p1"] }

ParamsSched ==
    { [NoParams EXCEPT !.serial_policy = a, !.serial_policy_value = b,
                       !.scheduling_policy = c] :
        a \in {None, "vm", "host", "custom"}, b \in {None, "sn1"},
        c \in {None, "p1", "p2"} }

ParamsMigration ==
    { [b EXCEPT !.migration_bandwidth = bw, !.migration_bandwidth_limit = lim,
                !.migration_auto_converge = ac, !.migration_policy = mp] :
        b \in Bases, bw \in {None, "auto", "hypervisor_default", "custom"},
        lim \in {NoneI, 0, MaxLimit}, ac \in {None, "true"},
        mp \in {None, "legacy"} }

ParamsFence ==
    { [b EXCEPT !.fence_enabled = fe, !.fence_skip_if_sd_active = sd,
                !.fence_skip_if_connectivity_broken = cb,
                !.fence_connectivity_threshold = th] :
        b \in Bases, fe \in Bool3, sd \in Bool3, cb \in Bool3,
        th \in {NoneI, 50} }

ParamsKsm ==
    { [b EXCEPT !.ksm = k, !.ksm_numa = kn, !.memory_policy = mp,
                !.rng_sources = rng] :
        b \in Bases, k \in Bool3, kn \in Bool3, mp \in {None, "server"},
        rng \in {NoneList, << >>, << "random", "hwrng" >>} }

ParamsMisc ==
    { [b EXCEPT !.spice_proxy = sp, !.cpu_arch = ca, !.cpu_type = ct,
                !.compatibility_version = cv, !.switch_type = st] :
        b \in Bases, sp \in {None, "", "http://proxy:3128"},
        ca \in {None, "x86_64"}, ct \in {None, "Intel"},
        cv \in {None, "4.0", "4"}, st \in {None, "ovs"} }

\* one of the plain parameters set: a bool to true or false, a free
\* string to a text or to '', resilience_policy to one of its choices
ParamsPlain ==
    { [b EXCEPT ![f] = v] :
        b \in Bases,
        f \in {"ballooning", "gluster", "virt", "threads_as_cores",
               "ha_reservation", "trusted_service", "vm_reason", "host_reason"},
        v \in {"True", "False"} }
    \cup
    { [b EXCEPT ![f] = v] :
        b \in Bases,
        f \in {"comment", "description", "datacenter", "network"},
        v \in {"", "note"} }
    \cup
    { [b EXCEPT !.resilience_policy = v] :
        b \in Bases, v \in {"migrate", "do_not_migrate"} }

ParamsPresent ==
    ParamsSched \cup ParamsMigration \cup ParamsFence \cup ParamsKsm
        \cup ParamsMisc \cup ParamsPlain

Remotes == {NoneObj, DefaultCluster, AltCluster}

Init ==
    /\ stateRaw \in {None, "present", "absent"}
    /\ \E q \in (IF stateRaw = "present" THEN ParamsPresent ELSE ParamsSched) :
           params = [q EXCEPT !.state = StateDefault(stateRaw)]
    /\ remote \in Remotes
    /\ pc = "start"
    /\ connection = "unbound"
    /\ entity = NoneObj
    /\ sent = NoneObj
    /\ ret = NoRet
    /\ err = ""
    /\ out = NoOut
    /\ uncaught = ""
    /\ invoked = << >>
    /\ calls = NoCalls
    /\ run = 1
    /\ prev = NoPrev

(* ------------------------------------------------------------------ *)
(* main                                                               *)
(* ------------------------------------------------------------------ *)
\* main calling create() in both branches
Operation_AlwaysCreate(state) ==
    IF state = "present" THEN "create"
    ELSE IF state = "absent" THEN "create"
    ELSE "none"

\* if state == 'present': create()  elif state == 'absent': remove()
Operation(state) ==
    IF state = "present" THEN "create"
    ELSE IF state = "absent" THEN "remove"
    ELSE "none"

\* the operation main is in
Op == IF invoked = << >> THEN "none" ELSE invoked[Len(invoked)]

\* connection = create_connection(...)
CreateConnection ==
    /\ pc = "start"
    /\ connection' = "open"
    /\ pc' = "dispatch"
    /\ UNCHANGED << params, stateRaw, remote, entity, sent, ret, err, out,
                    uncaught, invoked, calls, run, prev >>

\* create_connection raises: connection stays unbound
CreateConnectionRaises ==
    /\ pc = "start"
    /\ err' = "connection error"
    /\ pc' = "except"
    /\ UNCHANGED << params, stateRaw, remote, connection, entity, sent, ret,
                    out, uncaught, invoked, calls, run, prev >>

\* state = module.params['state']; call create or remove
Dispatch ==
    /\ pc = "dispatch"
    /\ invoked' = Append(invoked, Operation(params.state))
    /\ pc' = "search"
    /\ UNCHANGED << params, stateRaw, remote, connection, entity, sent, ret,
                    err, out, uncaught, calls, run, prev >>

\* create/remove: entity = self.search_entity()
SearchEntity ==
    /\ pc = "search"
    /\ LET found == IF remote # NoneObj /\ remote.name = params.name
                    THEN remote ELSE NoneObj
       IN /\ entity' = found
          /\ IF Op = "create"
             THEN /\ pc' = IF found # NoneObj THEN "update_check" ELSE "build"
                  /\ ret' = ret
             ELSE IF found = NoneObj
             THEN /\ pc' = "exit"
                  /\ ret' = [changed |-> FALSE, id |-> None,
                             msg |-> "Entity wasn't found."]
             ELSE /\ pc' = "remove"
                  /\ ret' = ret
    /\ calls' = [calls EXCEPT !.search = @ + 1]
    /\ UNCHANGED << params, stateRaw, remote, connection, sent, err, out,
                    uncaught, invoked, run, prev >>

\* create: if not self.update_check(entity)
UpdateCheck ==
    /\ pc = "update_check"
    /\ \E apiFails \in BOOLEAN :
         LET r == update_check(params, entity, apiFails)
         IN /\ calls' = [calls EXCEPT !.sched = @ + r.lookups]
            /\ IF ~r.ok
               THEN /\ err' = r.err
                    /\ pc' = "except"
                    /\ ret' = ret
               ELSE IF r.same
               THEN /\ ret' = [changed |-> FALSE, id |-> entity.id, msg |-> None]
                    /\ pc' = "exit"
                    /\ err' = err
               ELSE /\ pc' = "build"
                    /\ UNCHANGED << ret, err >>
    /\ UNCHANGED << params, stateRaw, remote, connection, entity, sent, out,
                    uncaught, invoked, run, prev >>

\* create: self.build_entity()
BuildEntity ==
    /\ pc = "build"
    /\ \E apiFails \in BOOLEAN :
         LET r == build_entity(params, apiFails)
         IN /\ calls' = [calls EXCEPT !.sched = @ + r.lookups]
            /\ IF ~r.ok
               THEN /\ err' = r.err
                    /\ pc' = "except"
                    /\ sent' = sent
               ELSE /\ sent' = r.entity
                    /\ pc' = "write"
                    /\ err' = err
    /\ UNCHANGED << params, stateRaw, remote, connection, entity, ret, out,
                    uncaught, invoked, run, prev >>

\* create: entity_service.update(...) or self._service.add(...)
WriteEntity ==
    /\ pc = "write"
    /\ remote' = ApplyCluster(IF entity = NoneObj THEN DefaultCluster ELSE remote,
                              sent)
    /\ calls' = [calls EXCEPT !.write = @ + 1]
    /\ ret' = [changed |-> TRUE, id |-> remote'.id, msg |-> None]
    /\ pc' = "exit"
    /\ UNCHANGED << params, stateRaw, connection, entity, sent, err, out,
                    uncaught, invoked, run, prev >>

\* remove: entity_service.remove()
RemoveEntity ==
    /\ pc = "remove"
    /\ remote' = NoneObj
    /\ calls' = [calls EXCEPT !.write = @ + 1]
    /\ ret' = [changed |-> TRUE, id |-> entity.id, msg |-> None]
    /\ pc' = "exit"
    /\ UNCHANGED << params, stateRaw, connection, entity, sent, err, out,
                    uncaught, invoked, run, prev >>

\* the SDK call of search_entity, add/update or remove raises
ApiRaises ==
    /\ pc \in {"search", "write", "remove"}
    /\ calls' = IF pc = "search" THEN [calls EXCEPT !.search = @ + 1]
                ELSE [calls EXCEPT !.write = @ + 1]
    /\ err' = "api error"
    /\ pc' = "except"
    /\ UNCHANGED << params, stateRaw, remote, connection, entity, sent, ret,
                    out, uncaught, invoked, run, prev >>

\* module.exit_json(**ret)
ExitJson ==
    /\ pc = "exit"
    /\ out' = [kind |-> "exit_json", changed |-> ret.changed, id |-> ret.id,
               msg |-> ret.msg]
    /\ pc' = "finally"
    /\ UNCHANGED << params, stateRaw, remote, connection, entity, sent, ret,
                    err, uncaught, invoked, calls, run, prev >>

\* except Exception as e: module.fail_json(msg=str(e), ...)
FailJson ==
    /\ pc = "except"
    /\ out' = [kind |-> "fail_json", changed |-> FALSE, id |-> None, msg |-> err]
    /\ pc' = "finally"
    /\ UNCHANGED << params, stateRaw, remote, connection, entity, sent, ret,
                    err, uncaught, invoked, calls, run, prev >>

\* finally: connection.close(logout=False); an unbound connection raises
CloseRaises(conn) == conn = "unbound"

Finally ==
    /\ pc = "finally"
    /\ IF CloseRaises(connection)
       THEN /\ uncaught' = "UnboundLocalError"
            /\ connection' = connection
       ELSE /\ connection' = "closed"
            /\ uncaught' = uncaught
    /\ pc' = "done"
    /\ UNCHANGED << params, stateRaw, remote, entity, sent, ret, err, out,
                    invoked, calls, run, prev >>

\* the same task is run again against the remote as it is now
NextRun ==
    /\ pc = "done"
    /\ run < MaxRuns
    /\ run' = run + 1
    /\ prev' = [kind |-> out.kind, changed |-> out.changed,
                wrote |-> IF calls.write > 0 /\ out.kind = "exit_json"
                          THEN Op ELSE "none"]
    /\ pc' = "start"
    /\ connection' = "unbound"
    /\ entity' = NoneObj
    /\ sent' = NoneObj
    /\ ret' = NoRet
    /\ err' = ""
    /\ out' = NoOut
    /\ uncaught' = ""
    /\ invoked' = << >>
    /\ calls' = NoCalls
    /\ UNCHANGED << params, stateRaw, remote >>

Next ==
    \/ CreateConnection
    \/ CreateConnectionRaises
    \/ Dispatch
    \/ SearchEntity
    \/ UpdateCheck
    \/ BuildEntity
    \/ WriteEntity
    \/ RemoveEntity
    \/ ApiRaises
    \/ ExitJson
    \/ FailJson
    \/ Finally
    \/ NextRun

Spec == Init /\ [][Next]_vars

(* ------------------------------------------------------------------ *)
(* Properties                                                         *)
(* ------------------------------------------------------------------ *)
ApiErrors == {"connection error", "api error"}

\* no parameter that is set differs from the value the cluster has
TrackedSame(p, e) ==
    /\ check_before_sched(p, e)
    /\ equal(get_policy_id(p), e.migration.policy.id)
    /\ equalI(get_memory_policy(p), e.memory_policy.over_commit.percent)
    /\ equalI(get_minor(p.compatibility_version).v, e.version.minor)
    /\ equalI(get_major(p.compatibility_version).v, e.version.major)
    /\ check_after_version(p, e)

\* C1: for an existing cluster, state=present with scheduling_policy and
\* serial_policy unset (and no other parameter that can make the build
\* raise) ends without failure, and writes iff a set parameter differs
\* from the remote value.
C1_UpdateIffSetParamDiffers ==
    ( /\ pc = "done"
      /\ Op = "create"
      /\ entity # NoneObj
      /\ params.scheduling_policy = None
      /\ params.serial_policy = None
      /\ params.serial_policy_value = None
      /\ params.compatibility_version # "4"
      /\ err \notin ApiErrors )
    => /\ out.kind = "exit_json"
       /\ (calls.write = 1) <=> ~TrackedSame(params, entity)

\* C2 as stated: every finished run has invoked exactly one operation, the
\* one its state selects, and has exited with that operation's result.
C2_ExactlyOneInEveryRun ==
    pc = "done"
    => /\ Len(invoked) = 1
       /\ invoked[1] = (IF stateRaw = "absent" THEN "remove" ELSE "create")
       /\ out = [kind |-> "exit_json", changed |-> ret.changed,
                 id |-> ret.id, msg |-> ret.msg]

\* C2 amended: at most one operation is invoked in a run; once the
\* connection exists and main is past the dispatch exactly one has been
\* invoked, create for state present or omitted, remove for state absent;
\* none is invoked when the connection was not created; and a run in which
\* nothing raised exits with the result dictionary of the operation.
C2_DispatchByState ==
    /\ Len(invoked) <= 1
    /\ (connection # "unbound" /\ pc \notin {"start", "dispatch"})
       => invoked = << (IF stateRaw = "absent" THEN "remove" ELSE "create") >>
    /\ connection = "unbound" => invoked = << >>
    /\ (pc \in {"finally", "done"} /\ err = "")
       => out = [kind |-> "exit_json", changed |-> ret.changed,
                 id |-> ret.id, msg |-> ret.msg]

\* state omitted, create invoked, the module exits with create's result
C2_Witness ==
    /\ pc = "done"
    /\ stateRaw = None
    /\ invoked = << "create" >>
    /\ out.kind = "exit_json"
    /\ out.changed
    /\ out.id = "id-c1"

C4_ApiErrorEndsInFailure ==
    (pc = "done" /\ err \in ApiErrors)
    => /\ out.kind = "fail_json"
       /\ out.msg = err
       /\ uncaught = ""

\* C5: when scheduling_policy is set the built entity references the policy
\* of that name (which exists); when it is unset no lookup is made and no
\* policy is referenced.
C5_SchedulingPolicyByName ==
    /\ (sent # NoneObj /\ params.scheduling_policy # None)
       => /\ search_by_name(SchedPolicies, params.scheduling_policy) # NoneObj
          /\ sent.scheduling_policy =
                 [id |-> search_by_name(SchedPolicies, params.scheduling_policy).id]
    /\ params.scheduling_policy = None
       => /\ calls.sched = 0
          /\ sent # NoneObj => sent.scheduling_policy = NoneObj

\* C6: unless migration_bandwidth is custom, the limit is not sent as the
\* bandwidth custom_value and is not compared with the remote one.
C6_LimitOnlyWhenCustom ==
    params.migration_bandwidth # "custom"
    => /\ checked_bandwidth_limit(params) = NoneI
       /\ (sent # NoneObj /\ sent.migration # NoneObj
             /\ sent.migration.bandwidth # NoneObj)
          => sent.migration.bandwidth.custom_value = NoneI

\* C7: unless serial_policy is custom, serial_policy_value is not sent in
\* the serial number, and a value without a policy raises nothing.
C7_ValueOnlyWhenCustom ==
    params.serial_policy # "custom"
    => /\ (sent # NoneObj /\ sent.serial_number # NoneObj)
          => sent.serial_number.value = None
       /\ err # "None is not a valid SerialNumberPolicy"

\* C8: when fence_enabled is set, the fencing policy that is sent has
\* enabled = fence_enabled.
C8_FenceEnabledDecides ==
    (sent # NoneObj /\ params.fence_enabled # None)
    => /\ sent.fencing_policy # NoneObj
       /\ sent.fencing_policy.enabled = params.fence_enabled

\* C9: in the built entity each optional part is there iff one of the
\* parameters it is built from is set (not None).
C9_PresentIffSet ==
    sent # NoneObj
    => /\ sent.serial_number # NoneObj
            <=> (params.serial_policy # None \/ params.serial_policy_value # None)
       /\ sent.migration # NoneObj
            <=> \/ params.migration_bandwidth # None
                \/ params.migration_bandwidth_limit # NoneI
                \/ params.migration_auto_converge # None
                \/ params.migration_compressed # None
                \/ params.migration_policy # None
       /\ sent.migration # NoneObj
            => /\ sent.migration.bandwidth # NoneObj
                    <=> \/ params.migration_bandwidth # None
                        \/ params.migration_bandwidth_limit # NoneI
               /\ sent.migration.auto_converge # None
                    <=> params.migration_auto_converge # None
               /\ sent.migration.compressed # None
                    <=> params.migration_compressed # None
               /\ sent.migration.policy # NoneObj
                    <=> params.migration_policy # None
       /\ sent.error_handling # NoneObj <=> params.resilience_policy # None
       /\ sent.fencing_policy # NoneObj
            <=> \/ params.fence_enabled # None
                \/ params.fence_skip_if_sd_active # None
                \/ params.fence_skip_if_connectivity_broken # None
                \/ params.fence_connectivity_threshold # NoneI
       /\ sent.fencing_policy # NoneObj
            => /\ sent.fencing_policy.skip_if_sd_active # NoneObj
                    <=> params.fence_skip_if_sd_active # None
               /\ sent.fencing_policy.skip_if_connectivity_broken # NoneObj
                    <=> \/ params.fence_skip_if_connectivity_broken # None
                        \/ params.fence_connectivity_threshold # NoneI
       /\ sent.display # NoneObj <=> params.spice_proxy # None
       /\ sent.required_rng_sources # NoneList <=> TruthyL(params.rng_sources)
       /\ sent.memory_policy # NoneObj <=> params.memory_policy # None
       /\ sent.ksm # NoneObj <=> (params.ksm # None \/ params.ksm_numa # None)
       /\ sent.data_center # NoneObj <=> params.datacenter # None
       /\ sent.management_network # NoneObj <=> params.network # None
       /\ sent.cpu # NoneObj <=> (params.cpu_arch # None \/ params.cpu_type # None)
       /\ sent.version # NoneObj <=> params.compatibility_version # None
       /\ sent.switch_type # None <=> params.switch_type # None

\* C10: after a run that created or updated the cluster, a run with the
\* same parameters that completes without an exception has written
\* nothing and reports changed=false.
C10_SecondRunUnchanged ==
    (pc = "done" /\ run >= 2 /\ prev.wrote = "create" /\ err = "")
    => /\ out.kind = "exit_json"
       /\ ~out.changed
       /\ calls.write = 0

====
